---- MODULE Spec2Model ----
(***************************************************************************)
(* Model of package telemetry (internal/collector/telemetry/telemetry.go): *)
(* the six package-level flag pointers, Flags, GetMetricsAddrDefault,      *)
(* GetLevel and the five accessors.                                        *)
(*                                                                         *)
(* Strings on which the code computes (the metrics level, the addresses,   *)
(* the error message) are sequences of characters, so that strings.ToLower,*)
(* the %q quoting and the switch compare real text.  A character is its    *)
(* Unicode code point (9 is TAB, 98 is b, 304 is capital I with dot above);*)
(* S(<<"b","a","s","i","c">>) writes the code points of ASCII text.        *)
(* Strings are valid UTF-8: no stray bytes.                                *)
(* A pointer is 0 (nil) or the identity of the FlagSet whose flag variable *)
(* it points to; a FlagSet maps each flag name to its variable: undefined, *)
(* or defined with a value and whether the command line has set it.        *)
(***************************************************************************)
EXTENDS Integers, Sequences, FiniteSets, TLC

VARIABLES metricsLevelPtr, metricsAddrPtr, metricsPrefixPtr,
          useLegacyMetricsPtr, useNewMetricsPtr, addInstanceIDPtr,
          flagSets, isDevBuild, nsets, result, prev, wpc, wfs, before

ptrs == <<metricsLevelPtr, metricsAddrPtr, metricsPrefixPtr,
          useLegacyMetricsPtr, useNewMetricsPtr, addInstanceIDPtr>>
vars == <<metricsLevelPtr, metricsAddrPtr, metricsPrefixPtr,
          useLegacyMetricsPtr, useNewMetricsPtr, addInstanceIDPtr,
          flagSets, isDevBuild, nsets, result, prev, wpc, wfs, before>>

(* ---------------------------- bounds ---------------------------------- *)
\* number of distinct flag.FlagSet objects a caller may pass to Flags
NumFlagSets == 2
\* number of command-line values the flag package writes in one execution
MaxSets == 1

FlagSetIds == 1..NumFlagSets

(* ---------------------------- text ------------------------------------ *)
\* A character is its Unicode code point.  Ascii lists the printable ASCII
\* characters from the space (32) to the tilde (126) but the grave accent;
\* S writes a string of them as the sequence of their code points.
Ascii == <<" ","!","\"","#","$","%","&","'","(",")","*","+",",","-",".","/",
          "0","1","2","3","4","5","6","7","8","9",":",";","<","=",">","?",
          "@","A","B","C","D","E","F","G","H","I","J","K","L","M","N","O",
          "P","Q","R","S","T","U","V","W","X","Y","Z","[","\\","]","^","_",
          "a","b","c","d","e","f","g","h","i","j","k","l","m","n","o",
          "p","q","r","s","t","u","v","w","x","y","z","{","|","}","~">>

\* the code point of a character of Ascii: 32..95 for the first 64, 97..126
\* for the rest (the grave accent, 96, is written as its number)
Code(ch) ==
    LET i == CHOOSE j \in 1..Len(Ascii) : Ascii[j] = ch
    IN  IF i <= 64 THEN 31 + i ELSE 32 + i
S(t) == [i \in 1..Len(t) |-> Code(t[i])]

\* The characters the text functions below are defined on: ASCII, Latin-1
\* and Latin Extended-A (0..383), the Greek letters U+0391..U+03A1 and
\* U+03A3..U+03CB, Cyrillic U+0400..U+045F, and zero width space (8203),
\* line and paragraph separator (8232, 8233), euro sign (8364), Kelvin and
\* Angstrom sign (8490, 8491), U+4E2D (20013), byte order mark (65279),
\* Deseret capital and small long I (66560, 66600), language tag (917505).
\* Strings are valid UTF-8 over these characters.
Runes ==
    (0..383) \cup (913..929) \cup (931..971) \cup (1024..1119)
        \cup {8203, 8232, 8233, 8364, 8490, 8491, 20013, 65279, 66560, 66600, 917505}

\* unicode.ToLower on one character of Runes, by the case ranges of the
\* Unicode tables: a constant offset over a block of capitals, or +1 on the
\* capital of each capital/small pair
ToLowerChar(c) ==
    CASE c \in 65..90                          -> c + 32    \* A..Z
      [] c \in (0..64) \cup (91..191)          -> c
      [] c \in (192..214) \cup (216..222)      -> c + 32    \* Latin-1 capitals
      [] c \in {215, 223} \cup (224..255)      -> c         \* multiplication sign, sharp s, small letters
      [] c \in (256..303) \cup (306..311) \cup (330..375)
                                               -> IF c % 2 = 0 THEN c + 1 ELSE c
      [] c = 304                               -> 105       \* I with dot above -> i
      [] c \in {305, 312, 329, 383}            -> c         \* dotless i, kra, 'n, long s
      [] c \in (313..328) \cup (377..382)      -> IF c % 2 = 1 THEN c + 1 ELSE c
      [] c = 376                               -> 255       \* Y with diaeresis
      [] c \in (913..929) \cup (931..939)      -> c + 32    \* Greek capitals
      [] c \in 940..971                        -> c
      [] c \in 1024..1039                      -> c + 80    \* Cyrillic capitals
      [] c \in 1040..1071                      -> c + 32
      [] c \in 1072..1119                      -> c
      [] c = 8490                              -> 107       \* Kelvin sign -> k
      [] c = 8491                              -> 229       \* Angstrom sign -> a with ring
      [] c = 66560                             -> 66600     \* Deseret capital long I
      [] c \in {8203, 8232, 8233, 8364, 20013, 65279, 66600, 917505} -> c

ToLowerIdentity(s) == s
\* strings.ToLower
ToLower(s) == [i \in 1..Len(s) |-> ToLowerChar(s[i])]

\* strconv.IsPrint on a character of Runes: letters, marks, numbers,
\* punctuation, symbols and the ASCII space; no control or format
\* character, and no space or separator other than the ASCII space
IsPrint(c) ==
    CASE c <= 255 -> (32 <= c /\ c < 127) \/ (161 <= c /\ c # 173)
      [] c > 255 /\ c \in {8203, 8232, 8233, 65279, 917505} -> FALSE
      [] c > 255 /\ c \in Runes \ {8203, 8232, 8233, 65279, 917505} -> TRUE

HexDigit(d) == IF d < 10 THEN 48 + d ELSE 87 + d
\* n in w lower-case hexadecimal digits
RECURSIVE Hex(_, _)
Hex(n, w) == IF w = 0 THEN <<>> ELSE Hex(n \div 16, w - 1) \o <<HexDigit(n % 16)>>

\* what %q (strconv.Quote) writes for one character: the quote and the
\* backslash behind a backslash, a printable character as it is, a control
\* character with a letter escape as that escape, any other character below
\* the space and DEL as \xNN, any other non-printable character as \uNNNN
\* up to U+FFFF and as \UNNNNNNNN beyond
QuoteChar(c) ==
    CASE c = 34 \/ c = 92    -> <<92, c>>
      [] c = 7               -> S(<<"\\", "a">>)
      [] c = 8               -> S(<<"\\", "b">>)
      [] c = 12              -> S(<<"\\", "f">>)
      [] c = 10              -> S(<<"\\", "n">>)
      [] c = 13              -> S(<<"\\", "r">>)
      [] c = 9               -> S(<<"\\", "t">>)
      [] c = 11              -> S(<<"\\", "v">>)
      [] c \in ((0..31) \ (7..13)) \cup {127} -> S(<<"\\", "x">>) \o Hex(c, 2)
      [] c \notin {34, 92} /\ c >= 32 /\ c # 127 /\ IsPrint(c)   -> <<c>>
      [] c > 127 /\ c < 65536 /\ ~IsPrint(c) -> S(<<"\\", "u">>) \o Hex(c, 4)
      [] c >= 65536 /\ ~IsPrint(c)           -> S(<<"\\", "U">>) \o Hex(c, 8)

RECURSIVE QuoteBody(_)
QuoteBody(s) == IF s = <<>> THEN <<>> ELSE QuoteChar(Head(s)) \o QuoteBody(Tail(s))

\* the %q verb: the text between double quotes, escaped as Go source
Quote(s) == S(<<"\"">>) \o QuoteBody(s) \o S(<<"\"">>)

\* string literals of the source
strEmpty    == <<>>
strNone     == S(<<"n","o","n","e">>)
strBasic    == S(<<"b","a","s","i","c">>)
strNormal   == S(<<"n","o","r","m","a","l">>)
strDetailed == S(<<"d","e","t","a","i","l","e","d">>)
strBASIC    == S(<<"B","A","S","I","C">>)
strOtelcol  == S(<<"o","t","e","l","c","o","l">>)
strPort     == S(<<":","8","8","8","8">>)
strLocalhostPort == S(<<"l","o","c","a","l","h","o","s","t",":","8","8","8","8">>)
strUnknownLevel  == S(<<"u","n","k","n","o","w","n"," ","m","e","t","r","i","c","s",
                      " ","l","e","v","e","l"," ">>)

\* the flag names, in the order Flags registers them
metricsLevelCfg  == "metrics-level"
metricsAddrCfg   == "metrics-addr"
metricsPrefixCfg == "metrics-prefix"
legacyMetricsCfg == "legacy-metrics"
newMetricsCfg    == "new-metrics"
addInstanceIDCfg == "add-instance-id"
FlagOrder == <<metricsLevelCfg, metricsAddrCfg, metricsPrefixCfg,
               legacyMetricsCfg, newMetricsCfg, addInstanceIDCfg>>
FlagNames == {FlagOrder[i] : i \in 1..6}

(* ---------------------------- Level ----------------------------------- *)
\* type Level int8
Int8(x) == ((x + 128) % 256) - 128

\* iota is the index of the ConstSpec in its const block: the block opens
\* with metricsAddrCfg, metricsLevelCfg and metricsPrefixCfg (indices 0..2),
\* so None is the ConstSpec of index 3.
IotaNone == 3
None     == Int8(IotaNone - 1)
Basic    == Int8((IotaNone + 1) - 1)
Normal   == Int8((IotaNone + 2) - 1)
Detailed == Int8((IotaNone + 3) - 1)
\* "var level Level": the zero value of the type
ZeroLevel == Int8(0)

NilError == [isNil |-> TRUE]
Errorf(str) == [isNil |-> FALSE, msg |-> strUnknownLevel \o Quote(str)]

(* ---------------------------- settings -------------------------------- *)
\* a nil pointer
Nil == 0

Undefined == [defined |-> FALSE]
FlagVar(v, isSet) == [defined |-> TRUE, value |-> v, set |-> isSet]

\* version.IsDevBuild(): fixed for the life of the process
IsDevBuild == isDevBuild

GetMetricsAddrDefaultSwapped ==
    IF IsDevBuild THEN strPort ELSE strLocalhostPort
\* GetMetricsAddrDefault
GetMetricsAddrDefault ==
    IF IsDevBuild THEN strLocalhostPort ELSE strPort

FlagDefaultLowerLevel(name) ==
    CASE name = metricsLevelCfg  -> strEmpty
      [] name = metricsAddrCfg   -> GetMetricsAddrDefault
      [] name = metricsPrefixCfg -> strEmpty
      [] name = legacyMetricsCfg -> FALSE
      [] name = newMetricsCfg    -> FALSE
      [] name = addInstanceIDCfg -> FALSE
\* the default value Flags registers for each flag
FlagDefault(name) ==
    CASE name = metricsLevelCfg  -> strBASIC
      [] name = metricsAddrCfg   -> GetMetricsAddrDefault
      [] name = metricsPrefixCfg -> strOtelcol
      [] name = legacyMetricsCfg -> FALSE
      [] name = newMetricsCfg    -> TRUE
      [] name = addInstanceIDCfg -> TRUE

FlagIndex(name) == CHOOSE i \in 1..6 : FlagOrder[i] = name

\* flags.String / flags.Bool panic ("flag redefined") on a name the FlagSet
\* already has: the position in FlagOrder of the first such name, 7 if none
FirstDefined(fs) ==
    IF \E i \in 1..6 : flagSets[fs][FlagOrder[i]].defined
    THEN CHOOSE i \in 1..6 :
            /\ flagSets[fs][FlagOrder[i]].defined
            /\ \A j \in 1..(i-1) : ~flagSets[fs][FlagOrder[j]].defined
    ELSE 7

\* the FlagSets after fs has registered, with their defaults, the flags of
\* FlagOrder at positions from..(upto-1)
Registered(fs, from, upto) ==
    [flagSets EXCEPT ![fs] =
        [n \in FlagNames |->
            IF FlagIndex(n) >= from /\ FlagIndex(n) < upto
            THEN FlagVar(FlagDefault(n), FALSE)
            ELSE @[n]]]

\* *p for the pointer that Flags stored for flag name
Deref(p, name) == flagSets[p][name].value

(* ---------------------------- results --------------------------------- *)
Returned(op, v)   == [op |-> op, kind |-> "return", val |-> v]
Panicked(op, why) == [op |-> op, kind |-> "panic", panic |-> why]
Done(op)          == [op |-> op, kind |-> "return"]
NoCall            == [op |-> "none", kind |-> "none"]
NilDereference    == "invalid memory address or nil pointer dereference"

ReaderOps == {"GetLevel", "GetMetricsAddr", "GetMetricsPrefix", "UseLegacyMetrics",
              "UseNewMetrics", "GetAddInstanceID", "GetMetricsAddrDefault"}

(* ---------------------------- GetLevel -------------------------------- *)
\* the switch of GetLevel on the lower-cased string; level starts as the
\* zero value and is what the default arm returns with the error
LevelSwitch(str) ==
    CASE str = strNone                    -> [level |-> None, err |-> NilError]
      [] str = strEmpty \/ str = strBasic -> [level |-> Basic, err |-> NilError]
      [] str = strNormal                  -> [level |-> Normal, err |-> NilError]
      [] str = strDetailed                -> [level |-> Detailed, err |-> NilError]
      [] OTHER                            -> [level |-> ZeroLevel, err |-> Errorf(str)]

GetLevelNoNilCheck(p) ==
    IF p = Nil
    THEN Panicked("GetLevel", NilDereference)
    ELSE LET r == LevelSwitch(ToLower(Deref(p, metricsLevelCfg)))
         IN  [op |-> "GetLevel", kind |-> "return", val |-> r.level, err |-> r.err]
\* GetLevel, reading p as the value of metricsLevelPtr
GetLevelOf(p) ==
    LET str == IF p # Nil THEN ToLower(Deref(p, metricsLevelCfg)) ELSE strEmpty
        r   == LevelSwitch(str)
    IN  [op |-> "GetLevel", kind |-> "return", val |-> r.level, err |-> r.err]

(* ---------------------------- accessors ------------------------------- *)
\* GetMetricsAddr, reading p as the value of metricsAddrPtr
GetMetricsAddrOf(p) ==
    IF p = Nil THEN Panicked("GetMetricsAddr", NilDereference)
    ELSE Returned("GetMetricsAddr", Deref(p, metricsAddrCfg))

GetMetricsPrefixWrongField(p) ==
    IF p = Nil THEN Panicked("GetMetricsPrefix", NilDereference)
    ELSE Returned("GetMetricsPrefix", Deref(p, metricsAddrCfg))
\* GetMetricsPrefix, reading p as the value of metricsPrefixPtr
GetMetricsPrefixOf(p) ==
    IF p = Nil THEN Panicked("GetMetricsPrefix", NilDereference)
    ELSE Returned("GetMetricsPrefix", Deref(p, metricsPrefixCfg))

\* UseLegacyMetrics, reading p as the value of useLegacyMetricsPtr
UseLegacyMetricsOf(p) ==
    IF p = Nil THEN Panicked("UseLegacyMetrics", NilDereference)
    ELSE Returned("UseLegacyMetrics", Deref(p, legacyMetricsCfg))

\* UseNewMetrics, reading p as the value of useNewMetricsPtr
UseNewMetricsOf(p) ==
    IF p = Nil THEN Panicked("UseNewMetrics", NilDereference)
    ELSE Returned("UseNewMetrics", Deref(p, newMetricsCfg))

\* GetAddInstanceID, reading p as the value of addInstanceIDPtr
GetAddInstanceIDOf(p) ==
    IF p = Nil THEN Panicked("GetAddInstanceID", NilDereference)
    ELSE Returned("GetAddInstanceID", Deref(p, addInstanceIDCfg))

(* ---------------------------- inputs ---------------------------------- *)
\* the capital of an ASCII small letter
ToUpperChar(c) == IF c \in 97..122 THEN c - 32 ELSE c

\* the characters that are case spellings of a lower-case ASCII letter: the
\* letter, its capital, and for i and k the dotted capital I and the Kelvin
\* sign
Spellings(c) ==
    {c, ToUpperChar(c)}
        \cup (IF c = Code("i") THEN {304} ELSE {})
        \cup (IF c = Code("k") THEN {8490} ELSE {})

\* raw spells the lower-case keyword kw in some mix of cases
IsSpellingOf(raw, kw) ==
    /\ Len(raw) = Len(kw)
    /\ \A i \in 1..Len(kw) : raw[i] \in Spellings(kw[i])

\* every upper/lower/mixed-case spelling of a lower-case keyword
RECURSIVE CaseVariants(_)
CaseVariants(kw) ==
    IF kw = <<>> THEN { <<>> }
    ELSE { <<c>> \o rest : c \in Spellings(Head(kw)), rest \in CaseVariants(Tail(kw)) }

Keywords == {strEmpty, strBasic, strNone, strNormal, strDetailed}

\* raw values that are no keyword: blanks, padded keywords, prefixes, numbers
BadRaw == { S(<<" ">>), S(<<" "," ">>),
            S(<<" ","b","a","s","i","c">>), S(<<"b","a","s","i","c"," ">>),
            S(<<" ","N","O","N","E">>), S(<<"N","o","r","m","a","l"," ">>),
            S(<<"b","a","s">>), S(<<"b","a","s","i">>), S(<<"n">>), S(<<"N","O","N">>),
            S(<<"d","e","t","a","i","l">>), S(<<"D","E","T","A","I","L","E">>),
            S(<<"n","o","n","e","e">>), S(<<"n","o","r","m","a","l","l">>),
            S(<<"0">>), S(<<"1">>), S(<<"2">>), S(<<"-","1">>),
            S(<<"b","o","g","u","s">>), S(<<"B","O","G","U","S">>), S(<<"B","o","g","u","s">>),
            S(<<"a","\"","b">>), S(<<"a","\\","b">>), S(<<"B","A","S","1","C">>),
            \* TAB, newline, no-break space, NUL, SOH, soft hyphen, DEL
            <<9>>, <<10>>, <<160>>, <<0>>, <<1>>, <<173>>, <<127>>,
            \* "basic" and CR LF; "a", SOH, "b"
            <<98, 97, 115, 105, 99, 13, 10>>, <<97, 1, 98>>,
            \* E acute, Kelvin sign, Angstrom sign, "BAS" and E acute
            <<201>>, <<8490>>, <<8491>>, <<66, 65, 83, 201>>,
            \* A grave and "B", Y diaeresis, L with stroke, Greek Alpha, Cyrillic A
            <<192, 66>>, <<376>>, <<321>>, <<913>>, <<1040>>,
            \* "NON" and Cyrillic IE (no spelling of "none"), Deseret long I
            <<78, 79, 78, 1045>>, <<66560>>,
            \* paragraph separator, byte order mark, language tag
            <<8233>>, <<65279>>, <<917505>> }

\* the raw metrics-level values of the resolution check
AllRaw == (UNION {CaseVariants(kw) : kw \in Keywords}) \cup BadRaw

\* the command-line values of the API check
LevelInputs == { strEmpty, S(<<"N","O","N","E">>), S(<<"N","o","r","m","a","l">>),
                 S(<<"D","E","T","A","I","L","E","D">>), S(<<"b","a","s","i","c">>),
                 S(<<"B","O","G","U","S">>), S(<<" ","b","a","s","i","c">>),
                 \* "BAS", I with dot above, "C"; TAB
                 <<66, 65, 83, 304, 67>>, <<9>> }
AddrInputs   == { S(<<":","9","9","9","9">>) }
PrefixInputs == { S(<<"a","p","p">>) }

SetInputs(name) ==
    CASE name = metricsLevelCfg  -> LevelInputs
      [] name = metricsAddrCfg   -> AddrInputs
      [] name = metricsPrefixCfg -> PrefixInputs
      [] OTHER                   -> BOOLEAN

(* ---------------------------- state ----------------------------------- *)
NoFlagSets == [fs \in FlagSetIds |-> [n \in FlagNames |-> Undefined]]

Init ==
    /\ metricsLevelPtr = Nil
    /\ metricsAddrPtr = Nil
    /\ metricsPrefixPtr = Nil
    /\ useLegacyMetricsPtr = Nil
    /\ useNewMetricsPtr = Nil
    /\ addInstanceIDPtr = Nil
    /\ flagSets = NoFlagSets
    /\ isDevBuild \in BOOLEAN
    /\ nsets = 0
    /\ result = NoCall
    /\ prev = NoCall
    /\ wpc = 0
    /\ wfs = 0
    /\ before = <<Nil, Nil, Nil, Nil, Nil, Nil>>

\* the value pointer number i holds once Flags(fs) has done the assignments
\* before position k
Assigned(old, i, k, fs) == IF i < k THEN fs ELSE old

(* ---------------------------- Flags ----------------------------------- *)
\* Flags(fs), whole: six registrations and assignments in order, cut short
\* by the flag package's panic at the first name fs already defines
Flags(fs) ==
    /\ wpc = 0
    /\ LET k == FirstDefined(fs) IN
        /\ flagSets' = Registered(fs, 1, k)
        /\ metricsLevelPtr'     = Assigned(metricsLevelPtr, 1, k, fs)
        /\ metricsAddrPtr'      = Assigned(metricsAddrPtr, 2, k, fs)
        /\ metricsPrefixPtr'    = Assigned(metricsPrefixPtr, 3, k, fs)
        /\ useLegacyMetricsPtr' = Assigned(useLegacyMetricsPtr, 4, k, fs)
        /\ useNewMetricsPtr'    = Assigned(useNewMetricsPtr, 5, k, fs)
        /\ addInstanceIDPtr'    = Assigned(addInstanceIDPtr, 6, k, fs)
        /\ result' = IF k <= 6 THEN Panicked("Flags", "flag redefined") ELSE Done("Flags")
    /\ before' = ptrs'
    /\ prev' = NoCall
    /\ UNCHANGED <<isDevBuild, nsets, wpc, wfs>>

\* the flag package writing a command-line value through the pointer that
\* flags.String / flags.Bool returned for a registered flag
Set(fs, name, v) ==
    /\ nsets < MaxSets
    /\ flagSets[fs][name].defined
    /\ flagSets' = [flagSets EXCEPT ![fs][name] = FlagVar(v, TRUE)]
    /\ nsets' = nsets + 1
    /\ result' = Done("Set")
    /\ prev' = NoCall
    /\ UNCHANGED <<ptrs, isDevBuild, wpc, wfs, before>>

(* ---------------------------- calls ----------------------------------- *)
\* what a read of a pointer variable can see: its value, or, while a Flags
\* call is in flight on another goroutine with no synchronisation, also the
\* value it had before that call
Observed(p, b) == IF wpc = 0 THEN {p} ELSE {p, b}

\* a call returning one of outs; no variable of the package is written
Call(outs) ==
    /\ \E r \in outs :
        /\ result' = r
        /\ prev' = IF result.op = r.op THEN result ELSE NoCall
    /\ UNCHANGED <<ptrs, flagSets, isDevBuild, nsets, wpc, wfs, before>>

GetLevel         == Call({GetLevelOf(o) : o \in Observed(metricsLevelPtr, before[1])})
GetMetricsAddr   == Call({GetMetricsAddrOf(o) : o \in Observed(metricsAddrPtr, before[2])})
GetMetricsPrefix == Call({GetMetricsPrefixOf(o) : o \in Observed(metricsPrefixPtr, before[3])})
UseLegacyMetrics == Call({UseLegacyMetricsOf(o) : o \in Observed(useLegacyMetricsPtr, before[4])})
UseNewMetrics    == Call({UseNewMetricsOf(o) : o \in Observed(useNewMetricsPtr, before[5])})
GetAddInstanceID == Call({GetAddInstanceIDOf(o) : o \in Observed(addInstanceIDPtr, before[6])})
CallGetMetricsAddrDefault == Call({Returned("GetMetricsAddrDefault", GetMetricsAddrDefault)})

Readers ==
    \/ GetLevel
    \/ GetMetricsAddr
    \/ GetMetricsPrefix
    \/ UseLegacyMetrics
    \/ UseNewMetrics
    \/ GetAddInstanceID
    \/ CallGetMetricsAddrDefault

Next ==
    \/ \E fs \in FlagSetIds : Flags(fs)
    \/ \E fs \in FlagSetIds : \E name \in FlagNames : \E v \in SetInputs(name) : Set(fs, name, v)
    \/ Readers

Spec == Init /\ [][Next]_vars

(* ------------------- Flags interleaved with readers ------------------- *)
\* Flags(fs) entered on its goroutine
FlagsBegin(fs) ==
    /\ wpc = 0
    /\ wpc' = 1
    /\ wfs' = fs
    /\ before' = ptrs
    /\ result' = [op |-> "Flags", kind |-> "running"]
    /\ prev' = NoCall
    /\ UNCHANGED <<ptrs, flagSets, isDevBuild, nsets>>

\* one statement of Flags: register flag number wpc and store its pointer
FlagsStep ==
    /\ wpc \in 1..6
    /\ IF flagSets[wfs][FlagOrder[wpc]].defined
       THEN /\ result' = Panicked("Flags", "flag redefined")
            /\ wpc' = 0 /\ wfs' = 0
            /\ UNCHANGED <<ptrs, flagSets>>
       ELSE /\ flagSets' = Registered(wfs, wpc, wpc + 1)
            /\ metricsLevelPtr'     = IF wpc = 1 THEN wfs ELSE metricsLevelPtr
            /\ metricsAddrPtr'      = IF wpc = 2 THEN wfs ELSE metricsAddrPtr
            /\ metricsPrefixPtr'    = IF wpc = 3 THEN wfs ELSE metricsPrefixPtr
            /\ useLegacyMetricsPtr' = IF wpc = 4 THEN wfs ELSE useLegacyMetricsPtr
            /\ useNewMetricsPtr'    = IF wpc = 5 THEN wfs ELSE useNewMetricsPtr
            /\ addInstanceIDPtr'    = IF wpc = 6 THEN wfs ELSE addInstanceIDPtr
            /\ wpc' = IF wpc = 6 THEN 0 ELSE wpc + 1
            /\ wfs' = IF wpc = 6 THEN 0 ELSE wfs
            /\ result' = IF wpc = 6 THEN Done("Flags")
                         ELSE [op |-> "Flags", kind |-> "running"]
    /\ before' = IF wpc' = 0 THEN ptrs' ELSE before
    /\ prev' = NoCall
    /\ UNCHANGED <<isDevBuild, nsets>>

NextRace ==
    \/ \E fs \in FlagSetIds : FlagsBegin(fs)
    \/ FlagsStep
    \/ \E fs \in FlagSetIds : \E name \in FlagNames : \E v \in SetInputs(name) : Set(fs, name, v)
    \/ Readers

SpecRace == Init /\ [][NextRace]_vars

(* ------------------- resolution over all raw values ------------------- *)
\* the state after Flags(1) and the command line giving metrics-level = raw
InitResolve ==
    /\ metricsLevelPtr = 1
    /\ metricsAddrPtr = 1
    /\ metricsPrefixPtr = 1
    /\ useLegacyMetricsPtr = 1
    /\ useNewMetricsPtr = 1
    /\ addInstanceIDPtr = 1
    /\ isDevBuild \in BOOLEAN
    /\ \E raw \in AllRaw :
        flagSets = [fs \in FlagSetIds |->
                      [n \in FlagNames |->
                         IF fs # 1 THEN Undefined
                         ELSE IF n = metricsLevelCfg THEN FlagVar(raw, TRUE)
                         ELSE FlagVar(FlagDefault(n), FALSE)]]
    /\ nsets = 1
    /\ result = Done("Set")
    /\ prev = NoCall
    /\ wpc = 0
    /\ wfs = 0
    /\ before = <<1, 1, 1, 1, 1, 1>>

NextResolve == GetLevel

SpecResolve == InitResolve /\ [][NextResolve]_vars

(* ---------------------------- properties ------------------------------ *)
AccessorOps == {"GetMetricsAddr", "GetMetricsPrefix", "UseLegacyMetrics",
                "UseNewMetrics", "GetAddInstanceID"}

\* the pointer variable and the flag an accessor (or GetLevel) reads
PtrOf(op) ==
    CASE op = "GetLevel"         -> metricsLevelPtr
      [] op = "GetMetricsAddr"   -> metricsAddrPtr
      [] op = "GetMetricsPrefix" -> metricsPrefixPtr
      [] op = "UseLegacyMetrics" -> useLegacyMetricsPtr
      [] op = "UseNewMetrics"    -> useNewMetricsPtr
      [] op = "GetAddInstanceID" -> addInstanceIDPtr
FlagOf(op) ==
    CASE op = "GetLevel"         -> metricsLevelCfg
      [] op = "GetMetricsAddr"   -> metricsAddrCfg
      [] op = "GetMetricsPrefix" -> metricsPrefixCfg
      [] op = "UseLegacyMetrics" -> legacyMetricsCfg
      [] op = "UseNewMetrics"    -> newMetricsCfg
      [] op = "GetAddInstanceID" -> addInstanceIDCfg

AllPopulated == \A i \in 1..6 : ptrs[i] # Nil
PartiallyPopulated == (\E i \in 1..6 : ptrs[i] # Nil) /\ (\E i \in 1..6 : ptrs[i] = Nil)

\* the six Settings fields as a reader would get them (nil where unset)
FieldValue(i) == IF ptrs[i] = Nil THEN <<"nil">> ELSE <<"set", Deref(ptrs[i], FlagOrder[i])>>
SettingsValues == [i \in 1..6 |-> FieldValue(i)]

\* the raw metrics level GetLevel reads in this state
CurrentRaw == Deref(metricsLevelPtr, metricsLevelCfg)

\* the Level the specification assigns to a lower-case keyword
KeywordLevel(kw) ==
    CASE kw = <<>>                                -> Basic
      [] kw = S(<<"b","a","s","i","c">>)             -> Basic
      [] kw = S(<<"n","o","n","e">>)                 -> None
      [] kw = S(<<"n","o","r","m","a","l">>)         -> Normal
      [] kw = S(<<"d","e","t","a","i","l","e","d">>) -> Detailed

IsKeywordVariant(raw) == \E kw \in Keywords : IsSpellingOf(raw, kw)

HasSuffix(s, suf) ==
    /\ Len(s) >= Len(suf)
    /\ SubSeq(s, Len(s) - Len(suf) + 1, Len(s)) = suf

\* C1: GetLevel maps every upper/lower/mixed-case spelling of "", "basic",
\* "none", "normal", "detailed" to Basic, Basic, None, Normal, Detailed with
\* a nil error, so all spellings of one keyword give the same Level.
C1_KeywordsResolve ==
    (result.op = "GetLevel" /\ metricsLevelPtr # Nil) =>
        \A kw \in Keywords :
            IsSpellingOf(CurrentRaw, kw) =>
                /\ result.kind = "return"
                /\ result.val = KeywordLevel(kw)
                /\ result.err = NilError

C1_Witness ==
    /\ result.op = "GetLevel"
    /\ metricsLevelPtr # Nil
    /\ CurrentRaw = S(<<"d","E","t","A">>) \o <<304>> \o S(<<"L","e","D">>)
    /\ result.val = Detailed
    /\ result.err = NilError

\* C2: for every raw value that is no spelling of a keyword GetLevel returns
\* a non-nil error carrying the quoted lower-cased value, and the Level
\* returned with it is the zero value, which is Basic.
C2_UnknownGivesErrorAndBasic ==
    (result.op = "GetLevel" /\ metricsLevelPtr # Nil /\ ~IsKeywordVariant(CurrentRaw)) =>
        /\ result.err # NilError
        /\ result.err.msg = strUnknownLevel \o Quote(ToLower(CurrentRaw))
        /\ result.val = ZeroLevel
        /\ result.val = Basic

\* C3: an accessor called while its pointer is still nil fails fast with an
\* Uninitialized error and returns no value, zero or other; called once
\* Flags has stored the pointer it returns the value of the field.
C3_AccessorUninitializedError ==
    \A op \in AccessorOps :
        result.op = op =>
            /\ PtrOf(op) = Nil =>
                  /\ "val" \notin DOMAIN result
                  /\ result.kind = "error"
                  /\ result.err = "Uninitialized"
            /\ PtrOf(op) # Nil =>
                  (result.kind = "return" /\ result.val = Deref(PtrOf(op), FlagOf(op)))

\* C4: once Flags has populated the six fields, no later operation (the
\* command line's own writes aside) changes the value any field holds.
C4_PopulatedExactlyOnce ==
    [][(AllPopulated /\ result'.op # "Set") => SettingsValues' = SettingsValues]_vars

\* C5: each accessor returns exactly its field; GetLevel and the accessors
\* change no Settings field; the same call made twice in a row gives the
\* same output (value and error) both times.
C5_ReadersPureAndRepeatable ==
    /\ [](/\ \A op \in AccessorOps :
               (result.op = op /\ result.kind = "return") =>
                   result.val = Deref(PtrOf(op), FlagOf(op))
          /\ prev # NoCall => result = prev)
    /\ [][result'.op \in ReaderOps =>
             (ptrs' = ptrs /\ flagSets' = flagSets /\ isDevBuild' = isDevBuild)]_vars

C5_Witness ==
    /\ AllPopulated
    /\ prev # NoCall
    /\ prev.op = "GetMetricsPrefix"
    /\ result = prev
    /\ flagSets[metricsPrefixPtr][metricsPrefixCfg].set

\* C6: in every interleaving of GetLevel and the accessors with Flags, no
\* call reads the Settings while they are partially populated (some pointers
\* assigned, others still nil).
C6_NoPartialSettingsObserved ==
    result.op \in (AccessorOps \cup {"GetLevel"}) => ~PartiallyPopulated

\* C7: None < Basic < Normal < Detailed as integers, Basic is the zero value
\* of Level with None strictly below it, and every Level GetLevel returns is
\* one of the four.
C7_LevelOrderAndZero ==
    /\ None < Basic /\ Basic < Normal /\ Normal < Detailed
    /\ Basic = ZeroLevel
    /\ None < ZeroLevel
    /\ (result.op = "GetLevel" /\ result.kind = "return") =>
           result.val \in {None, Basic, Normal, Detailed}

\* C8: GetMetricsAddrDefault returns "localhost:8888" on a development build
\* and ":8888" otherwise, whatever the settings hold; the port is 8888.
C8_DefaultAddrByBuild ==
    result.op = "GetMetricsAddrDefault" =>
        /\ result.kind = "return"
        /\ result.val = IF isDevBuild
                        THEN S(<<"l","o","c","a","l","h","o","s","t",":","8","8","8","8">>)
                        ELSE S(<<":","8","8","8","8">>)
        /\ HasSuffix(result.val, S(<<":","8","8","8","8">>))

C8_Witness ==
    /\ result.op = "GetMetricsAddrDefault"
    /\ isDevBuild
    /\ metricsAddrPtr # Nil
    /\ Deref(metricsAddrPtr, metricsAddrCfg) # result.val
    /\ result.val = S(<<"l","o","c","a","l","h","o","s","t",":","8","8","8","8">>)

\* C9: GetLevel called while metricsLevelPtr is nil returns Basic with a
\* nil error, whereas an accessor called on its nil pointer panics.
C9_GetLevelBeforeFlags ==
    /\ (result.op = "GetLevel" /\ metricsLevelPtr = Nil) =>
          (result.kind = "return" /\ result.val = Basic /\ result.err = NilError)
    /\ (result.op \in AccessorOps /\ PtrOf(result.op) = Nil) => result.kind = "panic"

C9_Witness ==
    /\ result.op = "GetLevel"
    /\ metricsLevelPtr = Nil
    /\ result.kind = "return"
    /\ result.val = Basic

\* C10: a flag registered by Flags and not set from the command line reads
\* as its default: GetLevel Basic with nil error, GetMetricsAddr the default
\* of the build type, GetMetricsPrefix "otelcol", UseLegacyMetrics false,
\* UseNewMetrics true, GetAddInstanceID true.
C10_DefaultsAfterFlags ==
    \A op \in AccessorOps \cup {"GetLevel"} :
        (result.op = op /\ PtrOf(op) # Nil /\ ~flagSets[PtrOf(op)][FlagOf(op)].set) =>
            /\ result.kind = "return"
            /\ op = "GetLevel" => (result.val = Basic /\ result.err = NilError)
            /\ op = "GetMetricsAddr" =>
                  result.val = IF isDevBuild
                               THEN S(<<"l","o","c","a","l","h","o","s","t",":","8","8","8","8">>)
                               ELSE S(<<":","8","8","8","8">>)
            /\ op = "GetMetricsPrefix" => result.val = S(<<"o","t","e","l","c","o","l">>)
            /\ op = "UseLegacyMetrics" => result.val = FALSE
            /\ op = "UseNewMetrics" => result.val = TRUE
            /\ op = "GetAddInstanceID" => result.val = TRUE

C10_Witness ==
    /\ result.op = "GetLevel"
    /\ AllPopulated
    /\ \A n \in FlagNames : ~flagSets[metricsLevelPtr][n].set
    /\ result.val = Basic
    /\ result.err = NilError
====
